---------------------------- MODULE Spec2Model ----------------------------
(***************************************************************************)
(* A model of the two classes of src/unnamed/part_000:                     *)
(*                                                                         *)
(*   Gui            one modal dialog of a player: open / close, with the  *)
(*                  promise that open returns (lines 4-45);                *)
(*   RpgCommonMap   the map: geometry, layers, the shape registry and the  *)
(*                  tile queries (lines 60-326).                           *)
(*                                                                         *)
(* An optional JavaScript value (a parameter left out, a property that is  *)
(* not set, undefined) is a set: {} when it is undefined, {v} when it is   *)
(* the value v.                                                            *)
(***************************************************************************)
EXTENDS Integers, Sequences, FiniteSets

VARIABLES
    _close,             \* Gui._close: Noop, or p for the resolve function of promise p
    _blockPlayerInput,  \* Gui._blockPlayerInput
    canMove,            \* player.canMove
    promises,           \* the promises open has created, in creation order
    trace,              \* the effects of the last call of a Gui method, in program order
    data,               \* RpgCommonMap.data: the loaded document, if any
    width,              \* RpgCommonMap.width
    height,             \* RpgCommonMap.height
    tileWidth,          \* RpgCommonMap.tileWidth
    tileHeight,         \* RpgCommonMap.tileHeight
    layers,             \* RpgCommonMap.layers
    shapes,             \* RpgCommonMap.shapes: the shape registry
    ret,                \* the last call of a map method: its arguments and what it returned
    held                \* the array a caller keeps from its last getShapes()

guiVars == <<_close, _blockPlayerInput, canMove, promises, trace>>
mapVars == <<data, width, height, tileWidth, tileHeight, layers, shapes, ret, held>>
vars == <<_close, _blockPlayerInput, canMove, promises, trace,
          data, width, height, tileWidth, tileHeight, layers, shapes, ret, held>>

None == {}
Some(v) == {v}
\* The value of an optional that is known to be set.
The(o) == CHOOSE v \in o : TRUE

(***************************************************************************)
(* Bounds.                                                                 *)
(***************************************************************************)
MaxOpens == 3           \* calls of open in one behaviour
MaxData == 2            \* distinct data values passed to open and close

Data == 1..MaxData
DataOpt == {None} \cup {Some(d) : d \in Data}

(***************************************************************************)
(* Gui                                                                     *)
(***************************************************************************)
\* private _close: Function = () => {}
Noop == 0

\* Calling a promise's resolve function: it settles a pending promise and
\* does nothing to a settled one; calling the initial () => {} does nothing.
Resolve(ps, f, v) ==
    IF f = Noop THEN ps
    ELSE IF ps[f].state = "pending"
         THEN [ps EXCEPT ![f] = [state |-> "resolved", value |-> v]]
         ELSE ps

Event(ev, p, d) == [ev |-> ev, p |-> p, data |-> d]

GuiInit ==
    /\ _close = Noop
    /\ _blockPlayerInput = FALSE
    /\ canMove = 1
    /\ promises = <<>>
    /\ trace = <<>>

\* GuiOpen storing the resolver only while _close is still the initial
\* () => {}: the first waiting open keeps the slot.
GuiOpen_FirstOpenWins(d, waitingAction, blockPlayerInput) ==
    /\ Len(promises) < MaxOpens
    /\ LET p == Len(promises) + 1
           created == Append(promises, [state |-> "pending", value |-> None])
       IN  /\ promises' = IF waitingAction THEN created
                          ELSE Resolve(created, p, None)
           /\ _close' = IF waitingAction /\ _close = Noop THEN p ELSE _close
           /\ trace' = <<Event("new Promise", p, None),
                         Event("emit gui.open", Noop, d)>>
                       \o (IF blockPlayerInput
                           THEN <<Event("canMove = 0", Noop, None)>> ELSE <<>>)
                       \o (IF waitingAction
                           THEN <<Event("_close = resolve", p, None)>>
                           ELSE <<Event("resolve", p, None)>>)
                       \o <<Event("return", p, None)>>
    /\ _blockPlayerInput' = blockPlayerInput
    /\ canMove' = IF blockPlayerInput THEN 0 ELSE canMove
    /\ UNCHANGED mapVars

\* open(data?, { waitingAction = false, blockPlayerInput = false } = {})
GuiOpen(d, waitingAction, blockPlayerInput) ==
    /\ Len(promises) < MaxOpens
    /\ LET p == Len(promises) + 1
           created == Append(promises, [state |-> "pending", value |-> None])
       IN  /\ promises' = IF waitingAction THEN created
                          ELSE Resolve(created, p, None)
           /\ _close' = IF waitingAction THEN p ELSE _close
           /\ trace' = <<Event("new Promise", p, None),
                         Event("emit gui.open", Noop, d)>>
                       \o (IF blockPlayerInput
                           THEN <<Event("canMove = 0", Noop, None)>> ELSE <<>>)
                       \o (IF waitingAction
                           THEN <<Event("_close = resolve", p, None)>>
                           ELSE <<Event("resolve", p, None)>>)
                       \o <<Event("return", p, None)>>
    /\ _blockPlayerInput' = blockPlayerInput
    /\ canMove' = IF blockPlayerInput THEN 0 ELSE canMove
    /\ UNCHANGED mapVars

\* GuiClose calling this._close() without the data.
GuiClose_NoData(d) ==
    /\ trace' = <<Event("emit gui.exit", Noop, None)>>
                \o (IF _blockPlayerInput
                    THEN <<Event("canMove = 1", Noop, None)>> ELSE <<>>)
                \o <<Event("_close", _close, d)>>
    /\ canMove' = IF _blockPlayerInput THEN 1 ELSE canMove
    /\ promises' = Resolve(promises, _close, None)
    /\ UNCHANGED <<_close, _blockPlayerInput>>
    /\ UNCHANGED mapVars

\* GuiClose setting canMove to 1 whether or not _blockPlayerInput is set.
GuiClose_AlwaysUnlocks(d) ==
    /\ trace' = <<Event("emit gui.exit", Noop, None)>>
                \o <<Event("canMove = 1", Noop, None)>>
                \o <<Event("_close", _close, d)>>
    /\ canMove' = 1
    /\ promises' = Resolve(promises, _close, d)
    /\ UNCHANGED <<_close, _blockPlayerInput>>
    /\ UNCHANGED mapVars

\* GuiClose calling this._close(data) before it emits 'gui.exit'.
GuiClose_ResolveFirst(d) ==
    /\ trace' = <<Event("_close", _close, d)>>
                \o <<Event("emit gui.exit", Noop, None)>>
                \o (IF _blockPlayerInput
                    THEN <<Event("canMove = 1", Noop, None)>> ELSE <<>>)
    /\ canMove' = IF _blockPlayerInput THEN 1 ELSE canMove
    /\ promises' = Resolve(promises, _close, d)
    /\ UNCHANGED <<_close, _blockPlayerInput>>
    /\ UNCHANGED mapVars

\* close(data?)
GuiClose(d) ==
    /\ trace' = <<Event("emit gui.exit", Noop, None)>>
                \o (IF _blockPlayerInput
                    THEN <<Event("canMove = 1", Noop, None)>> ELSE <<>>)
                \o <<Event("_close", _close, d)>>
    /\ canMove' = IF _blockPlayerInput THEN 1 ELSE canMove
    /\ promises' = Resolve(promises, _close, d)
    /\ UNCHANGED <<_close, _blockPlayerInput>>
    /\ UNCHANGED mapVars

(***************************************************************************)
(* RpgCommonMap: the shape registry                                        *)
(***************************************************************************)
MaxShapes == 3          \* entries the registry holds at most

\* Names callers give to shapes, and the identifiers generateUID hands out.
GivenNames == {"a", "b"}
UIDPool == <<"_uid1", "_uid2", "_uid3", "_uid4", "_uid5", "_uid6">>
NameOpt == {None} \cup {Some(n) : n \in GivenNames}

\* HitObject: the raw shape definition createShape takes, name and
\* properties optional.
HitObject(n, x, y, w, h, props) ==
    [name |-> n, x |-> x, y |-> y, width |-> w, height |-> h, properties |-> props]
HitObjects ==
    {HitObject(n, 10, 10, 5, 5, None) : n \in NameOpt}
    \cup {HitObject(n, 40, 64, 16, 8, Some([z |-> Some(2)])) : n \in NameOpt}

\* The names of a registry's entries.
NamesOf(regs) == {regs[i].name : i \in 1..Len(regs)}

\* generateUID() of ./Utils: an identifier that no entry of the registry
\* carries (the first free one of the pool).
CanGenerateUID(regs) == \E k \in 1..Len(UIDPool) : UIDPool[k] \notin NamesOf(regs)
generateUID(regs) ==
    LET free == {k \in 1..Len(UIDPool) : UIDPool[k] \notin NamesOf(regs)}
    IN  UIDPool[CHOOSE k \in free : \A j \in free : k <= j]

\* new RpgShape(obj) of ./Shape: the name, the hitbox made of x, y, width
\* and height, and the properties of a HitObject whose name and properties
\* are set.
RpgShape(obj) ==
    [name |-> The(obj.name),
     hitbox |-> [x |-> obj.x, y |-> obj.y, width |-> obj.width, height |-> obj.height],
     properties |-> The(obj.properties)]

\* What createShape makes of its argument (lines 145-146):
\*   obj.name = obj.name || generateUID() ; obj.properties = obj.properties || {}
FillObject(regs, obj) ==
    [obj EXCEPT !.name = IF obj.name /= None THEN obj.name
                         ELSE Some(generateUID(regs)),
                !.properties = IF obj.properties /= None THEN obj.properties
                               ELSE Some([z |-> None])]

\* createShape putting the shape at the front of the registry (unshift).
createShape_Unshift(regs, obj) == <<RpgShape(FillObject(regs, obj))>> \o regs

\* The registry after createShape(obj) (lines 147-148): the shape is pushed.
createShape(regs, obj) == Append(regs, RpgShape(FillObject(regs, obj)))

\* removeShape deleting only the first entry of that name.
removeShape_FirstOnly(regs, name) ==
    IF \E i \in 1..Len(regs) : regs[i].name = name
    THEN LET i == CHOOSE i \in 1..Len(regs) :
                     /\ regs[i].name = name
                     /\ \A j \in 1..(i - 1) : regs[j].name /= name
         IN  SubSeq(regs, 1, i - 1) \o SubSeq(regs, i + 1, Len(regs))
    ELSE regs

\* The registry after removeShape(name) (line 164).
removeShape(regs, name) == SelectSeq(regs, LAMBDA shape : shape.name /= name)

\* getShape returning the last entry of that name.
getShape_LastMatch(regs, name) ==
    IF \E i \in 1..Len(regs) : regs[i].name = name
    THEN Some(regs[CHOOSE i \in 1..Len(regs) :
                     /\ regs[i].name = name
                     /\ \A j \in (i + 1)..Len(regs) : regs[j].name /= name])
    ELSE None

\* getShape(name) (line 189): Array.find, the first match or undefined.
getShape(regs, name) ==
    IF \E i \in 1..Len(regs) : regs[i].name = name
    THEN Some(regs[CHOOSE i \in 1..Len(regs) :
                     /\ regs[i].name = name
                     /\ \A j \in 1..(i - 1) : regs[j].name /= name])
    ELSE None

\* The predicates getPositionByShape is called with: on the name ({} for any
\* name) and on whether properties.z is set.
Filters == [name : NameOpt, z : {"any", "set"}]
Matches(filter, shape) ==
    /\ filter.name = None \/ shape.name \in filter.name
    /\ filter.z = "set" => shape.properties.z /= None

\* random(min, max) of ./Utils: the integers it can return.
random(min, max) == min..max

\* getPositionByShape taking startsFind[0] whatever random returns.
getPositionByShape_FirstMatch(regs, filter, r) ==
    LET startsFind == SelectSeq(regs, LAMBDA shape : Matches(filter, shape))
    IN  IF Len(startsFind) > 0
        THEN LET start == startsFind[1]
             IN  Some([x |-> start.hitbox.x, y |-> start.hitbox.y,
                       z |-> IF start.properties.z /= None
                             THEN The(start.properties.z) * tileHeight
                             ELSE 0])
        ELSE None

\* getPositionByShape returning properties.z itself, not times zTileHeight.
getPositionByShape_ZUnscaled(regs, filter, r) ==
    LET startsFind == SelectSeq(regs, LAMBDA shape : Matches(filter, shape))
    IN  IF Len(startsFind) > 0
        THEN LET start == startsFind[r + 1]
             IN  Some([x |-> start.hitbox.x, y |-> start.hitbox.y,
                       z |-> IF start.properties.z /= None
                             THEN The(start.properties.z)
                             ELSE 0])
        ELSE None

\* getPositionByShape(filter) (lines 192-199) when random returns r.
\* start.properties.z * this.zTileHeight || 0: NaN (z unset) and 0 give 0.
getPositionByShape(regs, filter, r) ==
    LET startsFind == SelectSeq(regs, LAMBDA shape : Matches(filter, shape))
    IN  IF Len(startsFind) > 0
        THEN LET start == startsFind[r + 1]
             IN  Some([x |-> start.hitbox.x, y |-> start.hitbox.y,
                       z |-> IF start.properties.z /= None
                             THEN The(start.properties.z) * tileHeight
                             ELSE 0])
        ELSE None

(***************************************************************************)
(* RpgCommonMap: load                                                      *)
(***************************************************************************)
\* _extractShapes over the objects of one object layer, from the k-th on:
\* createShape names each object in place and pushes its shape.
RECURSIVE ExtractObjects(_, _, _)
ExtractObjects(objects, k, regs) ==
    IF k > Len(objects) THEN [objects |-> objects, shapes |-> regs]
    ELSE ExtractObjects([objects EXCEPT ![k] = FillObject(regs, objects[k])],
                        k + 1, createShape(regs, objects[k]))

\* _extractShapes leaving the loop at the first layer that is not an object
\* layer (break for continue).
RECURSIVE _extractShapes_StopsAtTileLayer(_, _, _)
_extractShapes_StopsAtTileLayer(ls, k, regs) ==
    IF k > Len(ls) THEN [layers |-> ls, shapes |-> regs]
    ELSE IF ls[k].type /= "object" THEN [layers |-> ls, shapes |-> regs]
    ELSE LET done == ExtractObjects(ls[k].objects, 1, regs)
         IN  _extractShapes_StopsAtTileLayer([ls EXCEPT ![k].objects = done.objects],
                                             k + 1, done.shapes)

\* _extractShapes (lines 114-121), from the k-th layer on.
RECURSIVE _extractShapes(_, _, _)
_extractShapes(ls, k, regs) ==
    IF k > Len(ls) THEN [layers |-> ls, shapes |-> regs]
    ELSE IF ls[k].type /= "object" THEN _extractShapes(ls, k + 1, regs)
    ELSE LET done == ExtractObjects(ls[k].objects, 1, regs)
         IN  _extractShapes([ls EXCEPT ![k].objects = done.objects],
                            k + 1, done.shapes)

\* How many objects the object layers of a document hold.
RECURSIVE ObjectCount(_, _)
ObjectCount(ls, k) ==
    IF k > Len(ls) THEN 0
    ELSE (IF ls[k].type = "object" THEN Len(ls[k].objects) ELSE 0)
         + ObjectCount(ls, k + 1)

\* The map after load(doc) (lines 74-82), the registry being regs before.
load(doc, regs) ==
    LET done == _extractShapes(doc.layers, 1, regs)
    IN  [data |-> Some([doc EXCEPT !.layers = done.layers]),
         width |-> doc.width,
         height |-> doc.height,
         tileWidth |-> doc.tileWidth,
         tileHeight |-> doc.tileHeight,
         layers |-> done.layers,
         shapes |-> done.shapes]

\* The map is what load made of it.
IsLoaded(m) ==
    /\ data = m.data
    /\ width = m.width
    /\ height = m.height
    /\ tileWidth = m.tileWidth
    /\ tileHeight = m.tileHeight
    /\ layers = m.layers
    /\ shapes = m.shapes

\* The array a caller holds: none, the array that is this.shapes (what the
\* caller sees in it is the registry), or an array that was this.shapes
\* until a removeShape replaced it, with the entries it had then.
NoArray == [ref |-> "none", items |-> <<>>]
RegistryArray == [ref |-> "registry", items |-> <<>>]
OldArray(items) == [ref |-> "old", items |-> items]

\* A map as constructed (lines 62-68).
MapInit ==
    /\ data = None
    /\ width = 0
    /\ height = 0
    /\ tileWidth = 0
    /\ tileHeight = 0
    /\ layers = <<>>
    /\ shapes = <<>>
    /\ ret = [op |-> "none"]
    /\ held = NoArray

Document(w, h, tw, th, ls) ==
    [width |-> w, height |-> h, tileWidth |-> tw, tileHeight |-> th, layers |-> ls]
ObjectLayer(objects) == [type |-> "object", objects |-> objects]
TileLayer(z, tiles) == [type |-> "tile", properties |-> [z |-> z], tiles |-> tiles]

\* The documents the registry is loaded from: object layers with named and
\* unnamed objects, the same name in two layers, and a tile layer between.
ShapeDocs ==
    {Document(2, 2, 16, 32, <<>>),
     Document(2, 2, 16, 32,
         <<ObjectLayer(<<HitObject(None, 10, 10, 5, 5, None)>>),
           TileLayer(None, <<>>),
           ObjectLayer(<<HitObject(Some("a"), 40, 64, 16, 8, Some([z |-> Some(2)]))>>)>>),
     Document(2, 2, 16, 32,
         <<ObjectLayer(<<HitObject(Some("b"), 10, 10, 5, 5, Some([z |-> None])),
                         HitObject(None, 40, 64, 16, 8, Some([z |-> Some(2)]))>>)>>),
     Document(2, 2, 16, 32,
         <<ObjectLayer(<<HitObject(Some("a"), 10, 10, 5, 5, None)>>),
           ObjectLayer(<<HitObject(Some("a"), 40, 64, 16, 8, Some([z |-> Some(2)]))>>)>>)}

\* The names removeShape and getShape are called with.
QueryNames == GivenNames \cup {UIDPool[1]}

Called(op, arg, result) == [op |-> op, arg |-> arg, result |-> result]

Load(doc) ==
    /\ Len(shapes) + ObjectCount(doc.layers, 1) <= MaxShapes
    /\ LET m == load(doc, shapes)
       IN  /\ data' = m.data
           /\ width' = m.width
           /\ height' = m.height
           /\ tileWidth' = m.tileWidth
           /\ tileHeight' = m.tileHeight
           /\ layers' = m.layers
           /\ shapes' = m.shapes
    /\ ret' = Called("load", doc, None)
    /\ UNCHANGED held
    /\ UNCHANGED guiVars

\* createShape(obj) returns this.shapes[this.shapes.length-1] (line 150).
CreateShape(obj) ==
    /\ Len(shapes) < MaxShapes
    /\ obj.name = None => CanGenerateUID(shapes)
    /\ shapes' = createShape(shapes, obj)
    /\ ret' = Called("createShape", obj, Some(shapes'[Len(shapes')]))
    /\ UNCHANGED <<data, width, height, tileWidth, tileHeight, layers, held>>
    /\ UNCHANGED guiVars

\* removeShape deleting the entries from the registry array itself (splice),
\* so that the array a caller holds stays the registry.
RemoveShape_InPlace(name) ==
    /\ shapes' = removeShape(shapes, name)
    /\ ret' = Called("removeShape", name, None)
    /\ UNCHANGED <<data, width, height, tileWidth, tileHeight, layers, held>>
    /\ UNCHANGED guiVars

\* removeShape(name) assigns the array filter() returns to this.shapes
\* (line 164): the array that was the registry keeps its entries, and a
\* caller holding it holds the old array from now on.
RemoveShape(name) ==
    /\ shapes' = removeShape(shapes, name)
    /\ held' = IF held.ref = "registry" THEN OldArray(shapes) ELSE held
    /\ ret' = Called("removeShape", name, None)
    /\ UNCHANGED <<data, width, height, tileWidth, tileHeight, layers>>
    /\ UNCHANGED guiVars

\* getShapes() returns this.shapes, the array itself (line 176).
GetShapes ==
    /\ held' = RegistryArray
    /\ ret' = Called("getShapes", None, shapes)
    /\ UNCHANGED <<data, width, height, tileWidth, tileHeight, layers, shapes>>
    /\ UNCHANGED guiVars

GetShape(name) ==
    /\ ret' = Called("getShape", name, getShape(shapes, name))
    /\ UNCHANGED <<data, width, height, tileWidth, tileHeight, layers, shapes, held>>
    /\ UNCHANGED guiVars

GetPositionByShape(filter) ==
    /\ \E r \in random(0, Len(SelectSeq(shapes, LAMBDA shape : Matches(filter, shape))) - 1)
               \cup {0} :
           ret' = Called("getPositionByShape", filter, getPositionByShape(shapes, filter, r))
    /\ UNCHANGED <<data, width, height, tileWidth, tileHeight, layers, shapes, held>>
    /\ UNCHANGED guiVars

ShapeNext ==
    \/ \E doc \in ShapeDocs : Load(doc)
    \/ \E obj \in HitObjects : CreateShape(obj)
    \/ \E name \in QueryNames : RemoveShape(name)
    \/ \E name \in QueryNames : GetShape(name)
    \/ \E filter \in Filters : GetPositionByShape(filter)

ShapeSpecInit == GuiInit /\ MapInit

ShapeSpec == ShapeSpecInit /\ [][ShapeNext]_vars

\* The registry and the array a caller keeps from getShapes(): shapes are
\* created and removed while the caller looks at its array.
AliasObjects ==
    {HitObject(Some("a"), 10, 10, 5, 5, None),
     HitObject(None, 40, 64, 16, 8, Some([z |-> Some(2)]))}
AliasNames == {"a", UIDPool[1]}

AliasNext ==
    \/ \E obj \in AliasObjects : CreateShape(obj)
    \/ \E name \in AliasNames : RemoveShape(name)
    \/ GetShapes

AliasSpecInit == GuiInit /\ MapInit

AliasSpec == AliasSpecInit /\ [][AliasNext]_vars

GuiNext ==
    \/ \E d \in DataOpt, w \in BOOLEAN, b \in BOOLEAN : GuiOpen(d, w, b)
    \/ \E d \in DataOpt : GuiClose(d)

GuiSpecInit == GuiInit /\ MapInit

GuiSpec == GuiSpecInit /\ [][GuiNext]_vars

(***************************************************************************)
(* RpgCommonMap: tile queries                                              *)
(***************************************************************************)
MaxLayers == 3          \* layers of a loaded document
TileSize == 2           \* tileWidth and tileHeight of the documents queried for tiles

\* intersection([start1, end1], [start2, end2]) of ./Utils: whether the two
\* ranges overlap, the end of a range not being part of it (a range that
\* starts where the other ends does not overlap it).
intersection(r1, r2) ==
    \/ r1[1] >= r2[1] /\ r1[1] < r2[2]
    \/ r2[1] >= r1[1] /\ r2[1] < r1[2]

\* layer.tiles[tileIndex] (line 235): the cell, or undefined for a hole of
\* the array or an index outside it.
CellAt(layer, tileIndex) ==
    IF tileIndex \in 0..(Len(layer.tiles) - 1) THEN layer.tiles[tileIndex + 1] ELSE None

\* z of lines 239-247 with the tile's z taken alone when the tile declares
\* one: the layer's z counts only for tiles without z.
CellZ_TileZFirst(layer, cell) ==
    LET zLayer == layer.properties.z
        zTile == cell.properties.z
    IN  IF zTile /= None THEN zTile ELSE zLayer

\* z of lines 239-247: the depth of a cell, undefined if neither the layer
\* nor the tile declares z.
CellZ(layer, cell) ==
    LET zLayer == layer.properties.z
        zTile == cell.properties.z
    IN  IF zLayer /= None
        THEN Some(The(zLayer) + (IF zTile /= None THEN The(zTile) ELSE 0))
        ELSE IF zTile /= None THEN zTile
        ELSE None

\* Lines 248-257, with line 252 dropping its test: the cell is pushed
\* whether or not the ranges intersect.
PushesCell_NoZTest(layer, cell, zPlayer) == TRUE

\* Lines 248-257: whether the cell is pushed to tiles.
PushesCell(layer, cell, zPlayer) ==
    LET z == CellZ(layer, cell)
    IN  IF z /= None
        THEN LET realZ == The(z) * tileHeight
             IN  intersection(zPlayer, <<realZ, realZ + tileHeight>>)
        ELSE TRUE

\* The loop of lines 231-258 from the k-th layer on: the cells pushed.
RECURSIVE CollectTiles(_, _, _)
CollectTiles(k, tileIndex, zPlayer) ==
    IF k > Len(layers) THEN <<>>
    ELSE LET layer == layers[k]
             rest == CollectTiles(k + 1, tileIndex, zPlayer)
         IN  IF layer.type /= "tile" THEN rest
             ELSE LET _tiles == CellAt(layer, tileIndex)
                  IN  IF _tiles = None THEN rest
                      ELSE IF PushesCell(layer, The(_tiles), zPlayer)
                           THEN <<The(_tiles)>> \o rest
                           ELSE rest

TileInfo(tiles, hasCollision, isOverlay, objectGroups, isClimbable) ==
    [tiles |-> tiles, hasCollision |-> hasCollision, isOverlay |-> isOverlay,
     objectGroups |-> objectGroups, isClimbable |-> isClimbable]

\* getTileByIndex taking the attributes of the first cell of tiles.
getTileByIndex_FirstTile(tileIndex, zPlayer) ==
    LET tiles == CollectTiles(1, tileIndex, zPlayer)
    IN  IF Len(tiles) = 0
        THEN TileInfo(tiles, Some(TRUE), Some(FALSE), <<>>, None)
        ELSE LET getLastTile == tiles[1]
             IN  TileInfo(tiles,
                          getLastTile.properties.collision,
                          getLastTile.properties.overlay,
                          getLastTile.objectGroups,
                          getLastTile.properties.climb)

\* getTileByIndex reporting no collision where no cell is found.
getTileByIndex_VoidIsFree(tileIndex, zPlayer) ==
    LET tiles == CollectTiles(1, tileIndex, zPlayer)
    IN  IF Len(tiles) = 0
        THEN TileInfo(tiles, Some(FALSE), Some(FALSE), <<>>, None)
        ELSE LET getLastTile == tiles[Len(tiles)]
             IN  TileInfo(tiles,
                          getLastTile.properties.collision,
                          getLastTile.properties.overlay,
                          getLastTile.objectGroups,
                          getLastTile.properties.climb)

\* getTileByIndex(tileIndex, zPlayer) (lines 229-279). The result for an
\* empty tiles has no isClimbable.
getTileByIndex(tileIndex, zPlayer) ==
    LET tiles == CollectTiles(1, tileIndex, zPlayer)
    IN  IF Len(tiles) = 0
        THEN TileInfo(tiles, Some(TRUE), Some(FALSE), <<>>, None)
        ELSE LET getLastTile == tiles[Len(tiles)]
             IN  TileInfo(tiles,
                          getLastTile.properties.collision,
                          getLastTile.properties.overlay,
                          getLastTile.objectGroups,
                          getLastTile.properties.climb)

\* The cells of the tile layers: a ground tile that declares no z and
\* blocks, and a bridge tile one level up that is an overlay and climbable.
Cell(gid, z, collision, overlay, climb, objectGroups) ==
    [gid |-> gid,
     properties |-> [z |-> z, collision |-> collision, overlay |-> overlay, climb |-> climb],
     objectGroups |-> objectGroups]
Cells ==
    {Cell(1, None, Some(TRUE), None, None, <<>>),
     Cell(2, Some(1), Some(FALSE), Some(TRUE), Some(TRUE), <<"bridge">>)}

\* The layers of the documents queried: an object layer, or a tile layer
\* over a grid of one column and two rows whose first cell is a cell or a
\* hole and whose second cell is a hole, with z unset, 0 or 1.
LayerChoices ==
    {ObjectLayer(<<HitObject(Some("a"), 10, 10, 5, 5, None)>>)}
    \cup {TileLayer(z, <<c, None>>) :
            z \in {None, Some(0), Some(1)},
            c \in {None} \cup {Some(cell) : cell \in Cells}}
TileDocs ==
    {Document(1, 2, TileSize, TileSize, ls) :
        ls \in UNION {[1..n -> LayerChoices] : n \in 0..MaxLayers}}

\* The queries: the first cell and the second, and z ranges that end on
\* and next to the levels' borders.
TileIndexes == {0, 1}
ZRanges ==
    {<<0, 0>>, <<0, TileSize - 1>>, <<0, TileSize>>, <<TileSize, TileSize>>,
     <<TileSize, 2 * TileSize - 1>>, <<TileSize, 2 * TileSize>>,
     <<2 * TileSize, 3 * TileSize>>}

GetTileByIndex(tileIndex, zPlayer) ==
    /\ ret' = Called("getTileByIndex",
                     [tileIndex |-> tileIndex, zPlayer |-> zPlayer],
                     getTileByIndex(tileIndex, zPlayer))
    /\ UNCHANGED <<data, width, height, tileWidth, tileHeight, layers, shapes, held>>
    /\ UNCHANGED guiVars

TileNext ==
    \E tileIndex \in TileIndexes, zPlayer \in ZRanges : GetTileByIndex(tileIndex, zPlayer)

\* A map that has loaded one of the documents.
TileSpecInit ==
    /\ GuiInit
    /\ \E doc \in TileDocs : IsLoaded(load(doc, <<>>))
    /\ ret = [op |-> "none"]
    /\ held = NoArray

TileSpec == TileSpecInit /\ [][TileNext]_vars

(***************************************************************************)
(* RpgCommonMap: positions and tile indexes                                *)
(***************************************************************************)
MaxGrid == 2            \* width and height of the map, in tiles
MaxTile == 3            \* tileWidth and tileHeight, in pixels

\* Math.floor(a / b) for integers a and b > 0.
Floor(a, b) == a \div b

\* getTileIndex(x, y, [z] = [0]) (lines 211-213).
getTileIndex(x, y, z) == width * Floor(y - z, tileHeight) + Floor(x, tileWidth)

\* getTileOriginPosition with the tile's height used for both coordinates.
getTileOriginPosition_HeightForX(x, y) ==
    [x |-> Floor(x, tileHeight) * tileHeight,
     y |-> Floor(y, tileHeight) * tileHeight]

\* getTileOriginPosition(x, y) (lines 297-305).
getTileOriginPosition(x, y) ==
    [x |-> Floor(x, tileWidth) * tileWidth,
     y |-> Floor(y, tileHeight) * tileHeight]

\* widthPx, heightPx (lines 90-102).
widthPx == width * tileWidth
heightPx == height * tileHeight

GetTileIndex(x, y) ==
    /\ ret' = Called("getTileIndex", [x |-> x, y |-> y], getTileIndex(x, y, 0))
    /\ UNCHANGED <<data, width, height, tileWidth, tileHeight, layers, shapes, held>>
    /\ UNCHANGED guiVars

GetTileOriginPosition(x, y) ==
    /\ ret' = Called("getTileOriginPosition", [x |-> x, y |-> y],
                     getTileOriginPosition(x, y))
    /\ UNCHANGED <<data, width, height, tileWidth, tileHeight, layers, shapes, held>>
    /\ UNCHANGED guiVars

\* Positions on the map and one pixel around it.
IndexNext ==
    \/ \E x \in (-1)..widthPx, y \in (-1)..heightPx : GetTileIndex(x, y)
    \/ \E x \in (-1)..widthPx, y \in (-1)..heightPx : GetTileOriginPosition(x, y)

\* A map that has loaded a document without layers, of any size.
IndexSpecInit ==
    /\ GuiInit
    /\ \E w \in 1..MaxGrid, h \in 1..MaxGrid, tw \in 1..MaxTile, th \in 1..MaxTile :
           IsLoaded(load(Document(w, h, tw, th, <<>>), <<>>))
    /\ ret = [op |-> "none"]
    /\ held = NoArray

IndexSpec == IndexSpecInit /\ [][IndexNext]_vars

(***************************************************************************)
(* RpgCommonMap: tiles by position                                         *)
(***************************************************************************)
\* getTileByPosition asking getTileIndex for the cell of (x, y) itself.
getTileByPosition_IndexIgnoresZ(x, y, z) ==
    LET tileIndex == getTileIndex(x, y, 0)
    IN  getTileByIndex(tileIndex, z)

\* getTileByPosition(x, y, z = [0, 0]) (lines 321-324): the index is asked
\* for with [z[0]].
getTileByPosition(x, y, z) ==
    LET tileIndex == getTileIndex(x, y, z[1])
    IN  getTileByIndex(tileIndex, z)

GetTileByPosition(x, y, z) ==
    /\ ret' = Called("getTileByPosition", [x |-> x, y |-> y, z |-> z],
                     getTileByPosition(x, y, z))
    /\ UNCHANGED <<data, width, height, tileWidth, tileHeight, layers, shapes, held>>
    /\ UNCHANGED guiVars

\* The documents queried by position: a grid of two columns and two rows,
\* a ground layer without z whose four cells differ from their neighbours,
\* and above it a layer, with z unset, 0 or 1, of two cells and two holes.
PositionDocs ==
    {Document(2, 2, TileSize, TileSize,
         <<TileLayer(None,
               <<Some(Cell(1, None, Some(TRUE), None, None, <<>>)),
                 Some(Cell(2, None, Some(FALSE), None, None, <<>>)),
                 Some(Cell(3, None, Some(FALSE), Some(TRUE), None, <<>>)),
                 Some(Cell(4, None, Some(TRUE), None, Some(TRUE), <<>>))>>),
           TileLayer(z,
               <<Some(Cell(5, Some(1), Some(FALSE), Some(TRUE), Some(TRUE), <<"bridge">>)),
                 None,
                 None,
                 Some(Cell(6, None, Some(TRUE), None, None, <<>>))>>)>>) :
        z \in {None, Some(0), Some(1)}}

PositionNext ==
    \E x \in 0..(2 * TileSize - 1), y \in 0..(2 * TileSize - 1), z \in ZRanges :
        GetTileByPosition(x, y, z)

\* A map that has loaded one of the documents.
PositionSpecInit ==
    /\ GuiInit
    /\ \E doc \in PositionDocs : IsLoaded(load(doc, <<>>))
    /\ ret = [op |-> "none"]
    /\ held = NoArray

PositionSpec == PositionSpecInit /\ [][PositionNext]_vars

(***************************************************************************)
(* Properties of Gui                                                       *)
(***************************************************************************)
\* Where the call did ev: its place among the call's effects, 0 if it did not.
Pos(t, ev) ==
    IF \E i \in 1..Len(t) : t[i].ev = ev
    THEN CHOOSE i \in 1..Len(t) : t[i].ev = ev
    ELSE 0
\* The last call was open (it returned a promise) / close (it called _close).
IsOpenCall(t) == Pos(t, "return") > 0
IsCloseCall(t) == Pos(t, "_close") > 0
\* The data a close call was given.
CloseData(t) == t[Pos(t, "_close")].data

\* C1: the deferred of a waiting open is pending when open returns and stays
\* pending through every call that is not close; the close(resultData) that
\* follows, while the Gui still holds that deferred's resolver, resolves it
\* with exactly resultData; and a resolved deferred never changes again,
\* whatever data later close calls pass.
C1_DeferredResolvedOnceByClose ==
    [][ /\ (IsOpenCall(trace') /\ Pos(trace', "_close = resolve") > 0)
            => /\ promises'[Len(promises')].state = "pending"
               /\ _close' = Len(promises')
        /\ \A p \in 1..Len(promises) :
            /\ (promises[p].state = "pending" /\ ~IsCloseCall(trace'))
                => promises'[p].state = "pending"
            /\ (promises[p].state = "pending" /\ IsCloseCall(trace') /\ _close = p)
                => promises'[p] = [state |-> "resolved", value |-> CloseData(trace')]
            /\ promises[p].state = "resolved" => promises'[p] = promises[p]
      ]_vars

\* C1 witness: a deferred that close(1) resolved keeps the value 1 after a
\* further close(2) went to the same resolver.
C1_Witness ==
    /\ IsCloseCall(trace)
    /\ CloseData(trace) = Some(2)
    /\ trace[Pos(trace, "_close")].p /= Noop
    /\ promises[trace[Pos(trace, "_close")].p] = [state |-> "resolved", value |-> Some(1)]

\* C2: after a close the player can move: a closed Gui never leaves the
\* player locked, whatever opens came before it.
C2_CloseRestoresMovement == IsCloseCall(trace) => canMove = 1

\* C10, as claimed: in every open call 'gui.open' is emitted before the
\* promise is created, before it is resolved and before it is returned; in
\* every close call 'gui.exit' is emitted before the resolver is invoked.
C10_EmitBeforePromiseCreated ==
    /\ IsOpenCall(trace) =>
        /\ Pos(trace, "emit gui.open") < Pos(trace, "new Promise")
        /\ Pos(trace, "emit gui.open") < Pos(trace, "return")
        /\ Pos(trace, "resolve") > 0
            => Pos(trace, "emit gui.open") < Pos(trace, "resolve")
    /\ IsCloseCall(trace) =>
        /\ Pos(trace, "emit gui.exit") > 0
        /\ Pos(trace, "emit gui.exit") < Pos(trace, "_close")

\* C10, amended: in every open call the promise is constructed first and
\* 'gui.open' is emitted from inside its executor, before the promise is
\* resolved or its resolver stored and before it is returned to the caller;
\* in every close call 'gui.exit' is emitted before the resolver is invoked.
C10_EmitBeforeReturnAndResolve ==
    /\ IsOpenCall(trace) =>
        /\ Pos(trace, "new Promise") = 1
        /\ Pos(trace, "emit gui.open") = 2
        /\ Pos(trace, "return") = Len(trace)
        /\ Pos(trace, "resolve") > 0
            => Pos(trace, "emit gui.open") < Pos(trace, "resolve")
        /\ Pos(trace, "_close = resolve") > 0
            => Pos(trace, "emit gui.open") < Pos(trace, "_close = resolve")
    /\ IsCloseCall(trace) =>
        /\ Pos(trace, "emit gui.exit") > 0
        /\ Pos(trace, "emit gui.exit") < Pos(trace, "_close")

\* C10 witness: a close call whose resolver settled a pending deferred with
\* the data it was given.
C10_Witness ==
    /\ IsCloseCall(trace)
    /\ trace[Pos(trace, "_close")].p /= Noop
    /\ CloseData(trace) /= None
    /\ promises[trace[Pos(trace, "_close")].p].value = CloseData(trace)

(***************************************************************************)
(* Properties of the shape registry                                        *)
(***************************************************************************)
\* C3: no two entries of the shape registry have the same name.
C3_NamesUnique ==
    \A i, j \in 1..Len(shapes) : i /= j => shapes[i].name /= shapes[j].name

\* C4: a getShape(obj.name) that follows createShape(obj) returns a shape
\* with obj's x, y, width and height as its hitbox, and a getShape(name) that
\* follows removeShape(name) returns undefined.
C4_GetShapeAfterCreateAndRemove ==
    [][ ret'.op = "getShape" =>
          /\ (ret.op = "createShape" /\ The(ret.result).name = ret'.arg)
             => /\ ret'.result /= None
                /\ The(ret'.result).hitbox =
                       [x |-> ret.arg.x, y |-> ret.arg.y,
                        width |-> ret.arg.width, height |-> ret.arg.height]
          /\ (ret.op = "removeShape" /\ ret.arg = ret'.arg)
             => ret'.result = None
      ]_vars

\* The position getPositionByShape reports for a shape.
PositionOf(shape) ==
    [x |-> shape.hitbox.x, y |-> shape.hitbox.y,
     z |-> IF shape.properties.z = None THEN 0
           ELSE The(shape.properties.z) * tileHeight]

\* C9: getPositionByShape(predicate) returns null exactly when no entry of
\* the registry satisfies the predicate; otherwise it returns the x and y of
\* the hitbox of an entry that satisfies it, with z that entry's
\* properties.z times the tile height, or 0 when properties.z is unset.
C9_PositionByShape ==
    ret.op = "getPositionByShape" =>
        LET matching == {i \in 1..Len(shapes) : Matches(ret.arg, shapes[i])}
        IN  /\ ret.result = None <=> matching = {}
            /\ ret.result /= None =>
                   \E i \in matching : The(ret.result) = PositionOf(shapes[i])

\* C9 witness: of three shapes one satisfies the predicate, its z is 2, the
\* tile height is 32, and the position returned has z = 64.
C9_Witness ==
    /\ ret.op = "getPositionByShape"
    /\ Len(shapes) = 3
    /\ Cardinality({i \in 1..Len(shapes) : Matches(ret.arg, shapes[i])}) = 1
    /\ tileHeight = 32
    /\ ret.result /= None
    /\ The(ret.result).z = 64

(***************************************************************************)
(* Properties of the tile queries                                          *)
(***************************************************************************)
\* The tile layers that have a cell at the index.
LayersWithCell(tileIndex) ==
    {k \in 1..Len(layers) :
        layers[k].type = "tile" /\ CellAt(layers[k], tileIndex) /= None}
\* The cell of the k-th layer at the index, and its depth.
CellOf(k, tileIndex) == The(CellAt(layers[k], tileIndex))
DepthOf(k, tileIndex) == CellZ(layers[k], CellOf(k, tileIndex))
\* The layers whose cell at the index passes the z-range test.
IncludedLayers(tileIndex, zPlayer) ==
    {k \in LayersWithCell(tileIndex) :
        LET z == DepthOf(k, tileIndex)
        IN  \/ z = None
            \/ intersection(zPlayer, <<The(z) * tileHeight,
                                       The(z) * tileHeight + tileHeight>>)}
\* The result that surfaces one cell only.
OnlyCell(cell) ==
    TileInfo(<<cell>>, cell.properties.collision, cell.properties.overlay,
             cell.objectGroups, cell.properties.climb)

\* C5: when exactly two tile layers have a cell at the queried index, one of
\* depth 0 and one of depth 1, the query with zRange [0, tileHeight) returns
\* the tiles and the attributes of the depth-0 cell only, and the query with
\* zRange [tileHeight, 2*tileHeight) those of the depth-1 cell only.
C5_ZRangeSelectsLayer ==
    ret.op = "getTileByIndex" =>
        LET idx == ret.arg.tileIndex
            with == LayersWithCell(idx)
        IN  \A lo, hi \in with :
                (/\ with = {lo, hi}
                 /\ DepthOf(lo, idx) = Some(0)
                 /\ DepthOf(hi, idx) = Some(1))
                => /\ ret.arg.zPlayer = <<0, tileHeight>>
                      => ret.result = OnlyCell(CellOf(lo, idx))
                   /\ ret.arg.zPlayer = <<tileHeight, 2 * tileHeight>>
                      => ret.result = OnlyCell(CellOf(hi, idx))

\* C5 witness: the depth-1 layer comes first in the list, the depth-0 layer
\* after it, and the query with zRange [tileHeight, 2*tileHeight) returned
\* the cell of the first.
C5_Witness ==
    /\ ret.op = "getTileByIndex"
    /\ ret.arg.zPlayer = <<tileHeight, 2 * tileHeight>>
    /\ \E lo, hi \in LayersWithCell(ret.arg.tileIndex) :
           /\ LayersWithCell(ret.arg.tileIndex) = {lo, hi}
           /\ hi < lo
           /\ DepthOf(lo, ret.arg.tileIndex) = Some(0)
           /\ DepthOf(hi, ret.arg.tileIndex) = Some(1)
           /\ CellOf(lo, ret.arg.tileIndex) /= CellOf(hi, ret.arg.tileIndex)
           /\ ret.result.tiles = <<CellOf(hi, ret.arg.tileIndex)>>

\* C6: when some tile layer yields an included cell, hasCollision,
\* isOverlay, isClimbable and objectGroups are those of the included cell of
\* the last such layer of the layers list.
C6_LastIncludedLayerWins ==
    ret.op = "getTileByIndex" =>
        LET inc == IncludedLayers(ret.arg.tileIndex, ret.arg.zPlayer)
        IN  inc /= {} =>
                LET last == CHOOSE k \in inc : \A j \in inc : j <= k
                    cell == CellOf(last, ret.arg.tileIndex)
                IN  /\ ret.result.hasCollision = cell.properties.collision
                    /\ ret.result.isOverlay = cell.properties.overlay
                    /\ ret.result.isClimbable = cell.properties.climb
                    /\ ret.result.objectGroups = cell.objectGroups

\* C6 witness: three stacked tile layers are all included, the cell of the
\* last differs from the cells of the two before it, and the result carries
\* the last one's attributes.
C6_Witness ==
    /\ ret.op = "getTileByIndex"
    /\ Len(layers) = 3
    /\ IncludedLayers(ret.arg.tileIndex, ret.arg.zPlayer) = {1, 2, 3}
    /\ CellOf(1, ret.arg.tileIndex) = CellOf(2, ret.arg.tileIndex)
    /\ CellOf(3, ret.arg.tileIndex) /= CellOf(1, ret.arg.tileIndex)
    /\ Len(ret.result.tiles) = 3
    /\ ret.result.objectGroups = CellOf(3, ret.arg.tileIndex).objectGroups
    /\ ret.result.objectGroups /= CellOf(1, ret.arg.tileIndex).objectGroups

\* C7: when no tile layer yields an included cell, the query returns
\* hasCollision = true, tiles = [], isOverlay = false and objectGroups = [].
C7_VoidIsSolid ==
    ret.op = "getTileByIndex" =>
        (IncludedLayers(ret.arg.tileIndex, ret.arg.zPlayer) = {} =>
            /\ ret.result.hasCollision = Some(TRUE)
            /\ ret.result.tiles = <<>>
            /\ ret.result.isOverlay = Some(FALSE)
            /\ ret.result.objectGroups = <<>>)

\* C7 witness: a tile layer has a cell at the index, a free one, the z-range
\* test excludes it, and the query reports a collision.
C7_Witness ==
    /\ ret.op = "getTileByIndex"
    /\ LayersWithCell(ret.arg.tileIndex) /= {}
    /\ \A k \in LayersWithCell(ret.arg.tileIndex) :
           CellOf(k, ret.arg.tileIndex).properties.collision = Some(FALSE)
    /\ IncludedLayers(ret.arg.tileIndex, ret.arg.zPlayer) = {}
    /\ ret.result.hasCollision = Some(TRUE)

(***************************************************************************)
(* Properties of positions and tile indexes                                *)
(***************************************************************************)
\* C8: for every position (x, y) with 0 <= x < widthPx and 0 <= y < heightPx,
\* getTileIndex of the position getTileOriginPosition(x, y) returned is
\* getTileIndex(x, y).
C8_OriginRoundTrip ==
    (/\ ret.op = "getTileOriginPosition"
     /\ ret.arg.x \in 0..(widthPx - 1)
     /\ ret.arg.y \in 0..(heightPx - 1))
    => getTileIndex(ret.result.x, ret.result.y, 0) = getTileIndex(ret.arg.x, ret.arg.y, 0)

\* C8 witness: a position that is not a tile's origin, on a map whose tiles
\* are not square, in the second row and the second column.
C8_Witness ==
    /\ ret.op = "getTileOriginPosition"
    /\ ret.arg.x \in 0..(widthPx - 1)
    /\ ret.arg.y \in 0..(heightPx - 1)
    /\ tileWidth /= tileHeight
    /\ ret.result.x \notin {0, ret.arg.x}
    /\ ret.result.y \notin {0, ret.arg.y}

(***************************************************************************)
(* More properties of Gui                                                  *)
(***************************************************************************)
\* The deferreds a step resolves.
ResolvedByStep ==
    {p \in 1..Len(promises) :
        promises[p].state = "pending" /\ promises'[p].state = "resolved"}

\* C11, as claimed: once open has been called again, with any waitingAction,
\* while an earlier deferred was pending, no later call resolves the earlier
\* deferred.
C11_AnyReopenDiscards ==
    [][ \A p \in 1..Len(promises) :
            (promises[p].state = "pending" /\ p < Len(promises))
            => promises'[p].state = "pending"
      ]_vars

\* C11, amended: an open with waitingAction = true stores its own resolver
\* and so discards the resolver of every deferred still pending, an open
\* with waitingAction = false leaves the stored resolver as it is; a pending
\* deferred whose resolver is not the stored one stays pending and discarded
\* through every later call; and one close resolves at most one deferred.
C11_WaitingReopenDiscards ==
    [][ /\ (IsOpenCall(trace') /\ Pos(trace', "_close = resolve") > 0)
           => /\ _close' = Len(promises')
              /\ \A p \in 1..Len(promises) :
                     promises[p].state = "pending"
                     => promises'[p].state = "pending" /\ _close' /= p
        /\ (IsOpenCall(trace') /\ Pos(trace', "resolve") > 0)
           => _close' = _close
        /\ \A p \in 1..Len(promises) :
               (promises[p].state = "pending" /\ _close /= p)
               => promises'[p].state = "pending" /\ _close' /= p
        /\ Cardinality(ResolvedByStep) <= 1
      ]_vars

\* C11 witness: a first waiting open, a second one, and a close(1) that
\* resolved the second deferred and left the first pending.
C11_Witness ==
    /\ IsCloseCall(trace)
    /\ Len(promises) >= 2
    /\ promises[1].state = "pending"
    /\ promises[2] = [state |-> "resolved", value |-> Some(1)]
    /\ trace[Pos(trace, "_close")].p = 2

\* A close finds no pending waiting open: the stored resolver is the initial
\* () => {} or that of a deferred already resolved.
NoPendingOpen == _close = Noop \/ promises[_close].state = "resolved"

\* C20: a close that finds no pending waiting open resolves no deferred and
\* changes no deferred's value; it emits 'gui.exit', sets canMove to 1 if the
\* last open set blockPlayerInput and leaves it otherwise, calls the stored
\* resolver and does nothing else.
C20_CloseWithoutPendingOpen ==
    [][ (IsCloseCall(trace') /\ NoPendingOpen) =>
            /\ promises' = promises
            /\ canMove' = IF _blockPlayerInput THEN 1 ELSE canMove
            /\ _close' = _close
            /\ _blockPlayerInput' = _blockPlayerInput
            /\ Pos(trace', "emit gui.exit") = 1
            /\ \A i \in 1..Len(trace') :
                   trace'[i].ev \in {"emit gui.exit", "canMove = 1", "_close"}
            /\ Pos(trace', "canMove = 1") > 0 <=> _blockPlayerInput
      ]_vars

\* C20 witness: a close on a Gui whose opens were all without waitingAction,
\* the last one without blockPlayerInput, while the player is locked: the
\* close called the initial () => {} and the player is still locked.
C20_Witness ==
    /\ IsCloseCall(trace)
    /\ trace[Pos(trace, "_close")].p = Noop
    /\ Len(promises) >= 2
    /\ \A p \in 1..Len(promises) : promises[p] = [state |-> "resolved", value |-> None]
    /\ ~_blockPlayerInput
    /\ canMove = 0

(***************************************************************************)
(* More properties of the shape registry                                   *)
(***************************************************************************)
\* The j-th smallest element of a set of numbers, and the subsequence of seq
\* at the places of S, in their order.
Nth(S, j) == CHOOSE k \in S : Cardinality({i \in S : i <= k}) = j
SubsequenceAt(seq, S) == [j \in 1..Cardinality(S) |-> seq[Nth(S, j)]]

\* What a caller sees in the array it holds.
HeldItems == IF held.ref = "registry" THEN shapes ELSE held.items

\* C13: removeShape(name) removes every entry whose name is name and nothing
\* else: the entries of other names remain, in the order they had; when no
\* entry has that name the registry is unchanged; the call returns nothing
\* and touches no other field of the map.
C13_RemoveShapeFrame ==
    [][ ret'.op = "removeShape" =>
            LET kept == {i \in 1..Len(shapes) : shapes[i].name /= ret'.arg}
            IN  /\ shapes' = SubsequenceAt(shapes, kept)
                /\ ret'.arg \notin NamesOf(shapes')
                /\ ret'.arg \notin NamesOf(shapes) => shapes' = shapes
                /\ ret'.result = None
                /\ UNCHANGED <<data, width, height, tileWidth, tileHeight, layers>>
      ]_vars

\* C13 witness: the array a caller took before the call holds two entries
\* named "a" around one of another name; after removeShape("a") the registry
\* is that one entry.
C13_Witness ==
    /\ ret.op = "removeShape"
    /\ ret.arg = "a"
    /\ held.ref = "old"
    /\ Len(held.items) = 3
    /\ held.items[1].name = "a"
    /\ held.items[2].name /= "a"
    /\ held.items[3].name = "a"
    /\ shapes = <<held.items[2]>>

\* C16: getShape(name) returns the first entry, in registry order, whose name
\* is name, also when several entries have that name; it returns undefined
\* when there is none; what it returns never has another name.
C16_GetShapeFirstMatch ==
    ret.op = "getShape" =>
        LET named == {i \in 1..Len(shapes) : shapes[i].name = ret.arg}
        IN  /\ named = {} => ret.result = None
            /\ named /= {} =>
                   /\ ret.result = Some(shapes[Nth(named, 1)])
                   /\ The(ret.result).name = ret.arg

\* C16 witness: two different entries have the name asked for, and getShape
\* returned the earlier one.
C16_Witness ==
    /\ ret.op = "getShape"
    /\ \E i, j \in 1..Len(shapes) :
           /\ i < j
           /\ shapes[i].name = ret.arg
           /\ shapes[j].name = ret.arg
           /\ shapes[i] /= shapes[j]
           /\ ret.result = Some(shapes[i])

\* C18: createShape(obj) appends exactly one entry, at the end of the
\* registry, and returns the registry's last element; the entry's name is
\* obj.name when given and a generated identifier otherwise, its properties
\* are obj.properties or the empty mapping, its hitbox is obj's; the entries
\* that were there are unchanged.
C18_CreateShapeAppends ==
    [][ ret'.op = "createShape" =>
            LET obj == ret'.arg
                n == Len(shapes)
            IN  /\ Len(shapes') = n + 1
                /\ \A i \in 1..n : shapes'[i] = shapes[i]
                /\ ret'.result = Some(shapes'[n + 1])
                /\ shapes'[n + 1].name =
                       IF obj.name /= None THEN The(obj.name) ELSE generateUID(shapes)
                /\ shapes'[n + 1].name \in GivenNames \cup {UIDPool[k] : k \in 1..Len(UIDPool)}
                /\ shapes'[n + 1].properties =
                       IF obj.properties /= None THEN The(obj.properties) ELSE [z |-> None]
                /\ shapes'[n + 1].hitbox =
                       [x |-> obj.x, y |-> obj.y, width |-> obj.width, height |-> obj.height]
                /\ UNCHANGED <<data, width, height, tileWidth, tileHeight, layers>>
      ]_vars

\* C18 witness: createShape of an object without name and without properties
\* on a registry of two entries returned the third entry, named by a
\* generated identifier, with the empty properties.
C18_Witness ==
    /\ ret.op = "createShape"
    /\ ret.arg.name = None
    /\ ret.arg.properties = None
    /\ Len(shapes) = 3
    /\ ret.result = Some(shapes[3])
    /\ shapes[3].name \in {UIDPool[k] : k \in 1..Len(UIDPool)}
    /\ shapes[3].properties = [z |-> None]
    /\ shapes[1] /= shapes[3]

\* The objects of the object layers of a document, layer after layer and
\* object after object.
RECURSIVE ObjectsInOrder(_, _)
ObjectsInOrder(ls, k) ==
    IF k > Len(ls) THEN <<>>
    ELSE (IF ls[k].type = "object" THEN ls[k].objects ELSE <<>>)
         \o ObjectsInOrder(ls, k + 1)

\* C14: after load(document) on a map as constructed the registry holds
\* exactly one entry for each object of each object layer, in layer order
\* and then object order, each entry with a non-empty name (the object's, or
\* a generated one when the object declares none) and the object's hitbox;
\* tile layers contribute no entry; the layers list is the document's, in
\* the document's order.
C14_LoadExtractsShapes ==
    [][ (ret'.op = "load" /\ data = None /\ shapes = <<>>) =>
            LET doc == ret'.arg
                objs == ObjectsInOrder(doc.layers, 1)
            IN  /\ Len(shapes') = Len(objs)
                /\ \A i \in 1..Len(objs) :
                       /\ shapes'[i].hitbox =
                              [x |-> objs[i].x, y |-> objs[i].y,
                               width |-> objs[i].width, height |-> objs[i].height]
                       /\ objs[i].name /= None => shapes'[i].name = The(objs[i].name)
                       /\ objs[i].name = None =>
                              shapes'[i].name \in {UIDPool[k] : k \in 1..Len(UIDPool)}
                       /\ shapes'[i].name /= ""
                /\ Len(layers') = Len(doc.layers)
                /\ \A k \in 1..Len(doc.layers) :
                       /\ layers'[k].type = doc.layers[k].type
                       /\ layers'[k].type = "tile" => layers'[k] = doc.layers[k]
                       /\ layers'[k].type = "object" =>
                              /\ Len(layers'[k].objects) = Len(doc.layers[k].objects)
                              /\ \A o \in 1..Len(doc.layers[k].objects) :
                                     [layers'[k].objects[o] EXCEPT !.name = None,
                                                                   !.properties = None]
                                     = [doc.layers[k].objects[o] EXCEPT !.name = None,
                                                                        !.properties = None]
      ]_vars

\* C14 witness: a map that has loaded only the document with an object
\* layer, a tile layer and another object layer holds two entries, the
\* first named by a generated identifier and the second "a".
C14_Witness ==
    /\ ret.op = "load"
    /\ Len(ret.arg.layers) = 3
    /\ ret.arg.layers[2].type = "tile"
    /\ Len(layers) = 3
    /\ Len(shapes) = 2
    /\ shapes[1].name = UIDPool[1]
    /\ shapes[2].name = "a"
    /\ shapes[2].hitbox = [x |-> 40, y |-> 64, width |-> 16, height |-> 8]

\* getPositionByShape(filter) returning the position of the i-th entry.
SelectsEntry(filter, i) ==
    /\ GetPositionByShape(filter)
    /\ ret'.result = Some(PositionOf(shapes[i]))

\* C17: whenever the predicate matches entries of the registry, each of them
\* can be selected: for each there is a call of getPositionByShape that
\* returns its position; and a call never returns the position of an entry
\* only because it is in the registry: what it returns is the position of a
\* matching entry.
C17_EveryMatchCanBeSelected ==
    /\ \A filter \in Filters : \A i \in 1..Len(shapes) :
           Matches(filter, shapes[i]) => ENABLED SelectsEntry(filter, i)
    /\ \A filter \in Filters : \A i \in 1..Len(shapes) :
           (/\ ~Matches(filter, shapes[i])
            /\ \A j \in 1..Len(shapes) :
                   Matches(filter, shapes[j]) => PositionOf(shapes[j]) /= PositionOf(shapes[i]))
           => ~ENABLED SelectsEntry(filter, i)

\* C17 witness: the predicate matches two entries at different positions and
\* not a third, and the call returned the position of the later match.
C17_Witness ==
    /\ ret.op = "getPositionByShape"
    /\ Len(shapes) = 3
    /\ \E i, j, k \in 1..Len(shapes) :
           /\ i < j
           /\ Matches(ret.arg, shapes[i])
           /\ Matches(ret.arg, shapes[j])
           /\ ~Matches(ret.arg, shapes[k])
           /\ PositionOf(shapes[i]) /= PositionOf(shapes[j])
           /\ ret.result = Some(PositionOf(shapes[j]))

\* C19: the array getShapes() returns is the registry itself until the next
\* removeShape: a createShape made meanwhile is seen through it.  removeShape
\* makes a new array the registry and leaves the old one as it is: the
\* array the caller holds still has the removed entries, and no later
\* createShape or removeShape shows in it.
C19_GetShapesIsLiveUntilRemove ==
    [][ /\ ret'.op = "getShapes" =>
               /\ ret'.result = shapes
               /\ shapes' = shapes
               /\ HeldItems' = shapes'
        /\ (held.ref = "registry" /\ ret'.op = "createShape") =>
               /\ HeldItems' = shapes'
               /\ Len(HeldItems') = Len(HeldItems) + 1
        /\ (held.ref = "registry" /\ ret'.op = "removeShape") =>
               /\ held'.ref = "old"
               /\ HeldItems' = HeldItems
        /\ (held.ref = "old" /\ ret'.op /= "getShapes") =>
               /\ held'.ref = "old"
               /\ HeldItems' = HeldItems
      ]_vars

\* C19 witness: the array a caller holds has an entry that has been removed
\* from the registry since, and lacks the entry a later createShape has just
\* added to the registry.
C19_Witness ==
    /\ held.ref = "old"
    /\ ret.op = "createShape"
    /\ \E i \in 1..Len(held.items) : held.items[i].name \notin NamesOf(shapes)
    /\ The(ret.result).name \notin NamesOf(held.items)
    /\ ret.result = Some(shapes[Len(shapes)])

(***************************************************************************)
(* More properties of the tile queries                                     *)
(***************************************************************************)
\* The depth the layer and the tile give the cell of layer k at tileIndex:
\* the layer's z plus the tile's z (or 0) when the layer declares z, the
\* tile's z otherwise, undefined when neither declares one.
DeclaredDepth(k, tileIndex) ==
    LET layerZ == layers[k].properties.z
        tileZ == The(CellAt(layers[k], tileIndex)).properties.z
    IN  IF layerZ /= None
        THEN Some(The(layerZ) + (IF tileZ = None THEN 0 ELSE The(tileZ)))
        ELSE tileZ

\* C12: for every tile index and z range, the tiles of the result are
\* exactly the cells at that index of those tile layers, taken in the order
\* of the layers list, whose cell has no depth or has a depth whose interval
\* [depth * tileHeight, depth * tileHeight + tileHeight] overlaps the z
\* range; object layers and layers with no cell at the index give nothing.
C12_TilesInLayerOrder ==
    ret.op = "getTileByIndex" =>
        LET tileIndex == ret.arg.tileIndex
            zRange == ret.arg.zPlayer
            included ==
                {k \in 1..Len(layers) :
                    /\ layers[k].type = "tile"
                    /\ CellAt(layers[k], tileIndex) /= None
                    /\ \/ DeclaredDepth(k, tileIndex) = None
                       \/ LET depth == The(DeclaredDepth(k, tileIndex))
                          IN  intersection(zRange, <<depth * tileHeight,
                                                     depth * tileHeight + tileHeight>>)}
        IN  ret.result.tiles =
                [j \in 1..Cardinality(included) |->
                    The(CellAt(layers[Nth(included, j)], tileIndex))]

\* C12 witness: three tile layers have a cell at the index; the middle one,
\* whose layer and tile both declare z, is left out by the z range, and the
\* result holds the cells of the first and the third, which differ, in that
\* order.
C12_Witness ==
    /\ ret.op = "getTileByIndex"
    /\ Len(layers) = 3
    /\ \A k \in 1..3 :
           layers[k].type = "tile" /\ CellAt(layers[k], ret.arg.tileIndex) /= None
    /\ layers[2].properties.z /= None
    /\ The(CellAt(layers[2], ret.arg.tileIndex)).properties.z /= None
    /\ ret.result.tiles = <<The(CellAt(layers[1], ret.arg.tileIndex)),
                            The(CellAt(layers[3], ret.arg.tileIndex))>>
    /\ ret.result.tiles[1] /= ret.result.tiles[2]

\* The row or column a pixel coordinate lies in, for cells of that size.
GridLine(v, size) ==
    CHOOSE r \in (0 - 2 * (width + height))..(2 * (width + height)) :
        r * size <= v /\ v < (r + 1) * size

\* C15, as claimed: getTileByPosition(x, y, zRange) returns what
\* getTileByIndex(getTileIndex(x, y), zRange) returns, for every position
\* and every z range: the cell looked up does not depend on the z range.
C15_CellIndependentOfZRange ==
    ret.op = "getTileByPosition" =>
        ret.result = getTileByIndex(getTileIndex(ret.arg.x, ret.arg.y, 0), ret.arg.z)

\* C15, amended: getTileByPosition(x, y, zRange) returns what getTileByIndex
\* returns, with zRange, for the index width * row + column of the cell
\* that contains the pixel (x, y - zRange[0]); that is the cell of (x, y)
\* when zRange starts at 0.
C15_CellOfPositionLoweredByZ ==
    ret.op = "getTileByPosition" =>
        LET x == ret.arg.x
            y == ret.arg.y
            z == ret.arg.z
            row == GridLine(y - z[1], tileHeight)
            column == GridLine(x, tileWidth)
        IN  /\ ret.result = getTileByIndex(width * row + column, z)
            /\ z[1] = 0 =>
                   ret.result = getTileByIndex(getTileIndex(x, y, 0), z)

\* C15 witness: a position in the second row, asked for with a z range that
\* starts one tile height up, returned cells of the first row, not those of
\* the cell that contains (x, y).
C15_Witness ==
    /\ ret.op = "getTileByPosition"
    /\ ret.arg.z[1] = tileHeight
    /\ ret.arg.y >= tileHeight
    /\ ret.result.tiles /= <<>>
    /\ ret.result.tiles[1] = The(CellAt(layers[1], GridLine(ret.arg.x, tileWidth)))
    /\ ret.result /= getTileByIndex(getTileIndex(ret.arg.x, ret.arg.y, 0), ret.arg.z)

=============================================================================
